---- MODULE Spec2Model ----
(***************************************************************************)
(* Model of the overlap-detection engine of src/geometry/HullOverlap.hpp:  *)
(* Andrew's monotone chain (AndrewsConvex_hull) and the HullOverlap class.  *)
(*                                                                         *)
(* Numbers.  Coordinates are exact integers.  A 2D coordinate that the     *)
(* code computes as NaN (0/0 in a normalisation) is carried by a flag next *)
(* to the value (nx, ny), and every comparison with a NaN is false, as in  *)
(* IEEE arithmetic.  Rounding of float/double is not modelled.             *)
(***************************************************************************)
EXTENDS Integers, Sequences, FiniteSets, TLC

\* ------------------------------------------------------------------ bounds
\* Largest x of the grid the hull inputs are drawn from (y < GridMax).
GridMax == 2
\* Largest number of points of a hull input.
MaxHullN == 4

\* Largest number of points of a line drawn from PointSet.
MaxLineLen == 2
\* Largest number of invocations on one HullOverlap.
MaxCalls == 2
\* Largest number of HullOverlap objects built on the same arguments.
MaxInstances == 2
\* Most uninitialised loop counter values that are told apart below the size.
MaxStart == 1
\* Largest coordinate of the 3D grid the lines of the basis check are drawn from.
BasisGridMax == 1

VARIABLES
    points,     \* AndrewsConvex_hull: the vector 'points' (in/out argument)
    hull,       \* AndrewsConvex_hull: the vector 'hull' (out argument)
    points0,    \* the vector 'points' as it was when the call was made
    hpc         \* position of the caller of AndrewsConvex_hull

hvars == <<points, hull, points0, hpc>>

VARIABLES
    \* constructor arguments (const members)
    line1, line2, plane, hullMethod,
    \* members of HullOverlap; a cloud pointer is [null, pts]
    line1InPlane, line2InPlane,
    line1InPlane2D, line2InPlane2D,
    hull1Vertices, hull2Vertices,
    hull1PointIndices, hull2PointIndices,
    line1InBothHullPointIndices, line2InBothHullPointIndices,
    vector1, vector2, refPoint,
    \* the caller's two output clouds (passed to an invocation or not)
    line1InBothHull, line2InBothHull,
    \* the invocation: its arguments, the stage it is at, the pair it returned
    args, pc, ret,
    \* the process: "running", "exited" (exit(1)) or "crashed", why, and
    \* whether a read outside a vector has happened
    proc, fault, oob,
    \* invocations made on this object, objects built so far
    calls, instances,
    \* what the caller saw: the last and the previous completed invocation on
    \* this object, and per mode the first invocation of an object that was
    \* given both output clouds
    last, prev, modeRes

inputs   == <<line1, line2, plane, hullMethod>>
clouds3  == <<line1InPlane, line2InPlane>>
clouds2  == <<line1InPlane2D, line2InPlane2D>>
hullsV   == <<hull1Vertices, hull2Vertices>>
hullsI   == <<hull1PointIndices, hull2PointIndices>>
overlapI == <<line1InBothHullPointIndices, line2InBothHullPointIndices>>
basis    == <<vector1, vector2, refPoint>>
outs     == <<line1InBothHull, line2InBothHull>>
members  == <<clouds3, clouds2, hullsV, hullsI, overlapI, basis>>
process  == <<proc, fault, oob>>
seen     == <<last, prev, modeRes>>
evars    == <<inputs, members, outs, args, pc, ret, process, calls, instances, seen>>
vars     == <<hvars, evars>>

\* ------------------------------------------------ Andrew's monotone chain

\* struct PointAndrews { coord_t x; coord_t y; uint64_t index; }
\* nx, ny: the coordinate is NaN (then x, y is 0 and is never read).
PointAndrews(x, y, index) ==
    [x |-> x, y |-> y, nx |-> FALSE, ny |-> FALSE, index |-> index]

\* a < b on coord_t, false when either is NaN
NumLt(a, an, b, bn) == ~an /\ ~bn /\ a < b
\* a == b on coord_t, false when either is NaN
NumEq(a, an, b, bn) == ~an /\ ~bn /\ a = b

\* PointAndrews::operator<
LessAndrews(p, q) ==
    \/ NumLt(p.x, p.nx, q.x, q.nx)
    \/ (NumEq(p.x, p.nx, q.x, q.nx) /\ NumLt(p.y, p.ny, q.y, q.ny))

\* cross(O, A, B) is NaN as soon as one operand is
crossNaN(O, A, B) == O.nx \/ O.ny \/ A.nx \/ A.ny \/ B.nx \/ B.ny

\* cross(O, A, B): z-component of OA x OB
cross(O, A, B) == (A.x - O.x) * (B.y - O.y) - (A.y - O.y) * (B.x - O.x)

\* mutant of crossLE0: pops on a right turn only (< 0), keeping collinear points
crossLT0(O, A, B) == ~crossNaN(O, A, B) /\ cross(O, A, B) < 0

\* the loop condition  cross(hull[k-2], hull[k-1], p) <= 0
crossLE0(O, A, B) == ~crossNaN(O, A, B) /\ cross(O, A, B) <= 0

\* the elements of a vector, each with its position
Slots(s) == { <<i, s[i]>> : i \in 1..Len(s) }

\* All orders in which a set of slots can come out of a sort by operator<
RECURSIVE SortResults(_)
SortResults(S) ==
    IF S = {} THEN { <<>> }
    ELSE UNION { { <<m[2]>> \o r : r \in SortResults(S \ {m}) } :
                 m \in { e \in S : \A f \in S : ~LessAndrews(f[2], e[2]) } }

\* sort(points.begin(), points.end()): std::sort is not stable, so elements
\* that compare equivalent may come out in any order.
SortedVectors(s) == SortResults(Slots(s))

\* a value-initialised PointAndrews, as hull.resize() creates them
ZeroPoint == [x |-> 0, y |-> 0, nx |-> FALSE, ny |-> FALSE, index |-> 0]

\* hull.resize(m)
Resize(h, m) ==
    [i \in 1..m |-> IF i <= Len(h) THEN h[i] ELSE ZeroPoint]

\* mutant of IsTrivial: n < 3
IsTrivialBelow3(n) == n < 3

\* n <= 3: the input is returned as it is
IsTrivial(n) == n <= 3

\* while (k >= floor && cross(hull[k-2], hull[k-1], p) <= 0) k--;
RECURSIVE PopWhile(_, _, _)
PopWhile(c, p, floor) ==
    IF c.k >= floor /\ crossLE0(c.h[c.k - 1], c.h[c.k], p)
    THEN PopWhile([c EXCEPT !.k = c.k - 1], p, floor)
    ELSE c

\* mutant of Push: records the position in the hull instead of the point's index
PushPosition(c, p) ==
    [h |-> [c.h EXCEPT ![c.k + 1] = [p EXCEPT !.index = c.k]], k |-> c.k + 1]

\* hull[k++] = p
Push(c, p) == [h |-> [c.h EXCEPT ![c.k + 1] = p], k |-> c.k + 1]

\* Build lower hull: for (i = 0; i < n; ++i), position i+1 of pts
RECURSIVE LowerHull(_, _, _)
LowerHull(pts, i, c) ==
    IF i > Len(pts) THEN c
    ELSE LowerHull(pts, i + 1, Push(PopWhile(c, pts[i], 2), pts[i]))

\* Build upper hull: for (i = n-1, t = k+1; i > 0; --i), reading points[i-1],
\* which is position i of pts
RECURSIVE UpperHull(_, _, _, _)
UpperHull(pts, i, t, c) ==
    IF i < 1 THEN c
    ELSE UpperHull(pts, i - 1, t, Push(PopWhile(c, pts[i], t), pts[i]))

\* The chain on the sorted vector, n > 3: hull.resize(2n), both loops,
\* hull.resize(k-1)
MonotoneChain(pts) ==
    LET n     == Len(pts)
        c0    == [h |-> Resize(<<>>, 2 * n), k |-> 0]
        lower == LowerHull(pts, 1, c0)
        upper == UpperHull(pts, n - 1, lower.k + 1, lower)
    IN  Resize(upper.h, upper.k - 1)

\* AndrewsConvex_hull(hull, points) when sort() leaves 'sorted' in points:
\* the pair of vectors <<hull, points>> after the call
AndrewsConvex_hull(pts, sorted) ==
    IF IsTrivial(Len(pts))
    THEN [hull |-> pts, points |-> pts]
    ELSE [hull |-> MonotoneChain(sorted), points |-> sorted]

\* ------------------------------------------------------- geometry in 3D
\* A 3D point (pcl::PointXYZ) or vector (Eigen::Vector3d) is a triple.

Zero3 == <<0, 0, 0>>
Sub3(u, v) == <<u[1] - v[1], u[2] - v[2], u[3] - v[3]>>
Dot3(u, v) == u[1] * v[1] + u[2] * v[2] + u[3] * v[3]
\* mutant of Cross3: the second component with the wrong sign
Cross3WrongSign(u, v) == <<u[2] * v[3] - u[3] * v[2],
                          u[1] * v[3] - u[3] * v[1],
                          u[1] * v[2] - u[2] * v[1]>>
Cross3(u, v) == <<u[2] * v[3] - u[3] * v[2],
                 u[3] * v[1] - u[1] * v[3],
                 u[1] * v[2] - u[2] * v[1]>>

\* the normal (a, b, c) of the plane ax + by + cz + d = 0
Normal(pl) == <<pl.a, pl.b, pl.c>>

\* pcl::ProjectInliers with SACMODEL_PLANE on one point: p - n (n.p + d) with
\* n the normalised normal; a zero normal is left as it is by the
\* normalisation and the point comes back unchanged.  The planes of the
\* model have a unit or a zero normal, so the normalisation is exact.
ProjectPoint(p, pl) ==
    LET n == Normal(pl)
        t == Dot3(n, p) + pl.d
    IN  IF n = Zero3 THEN p
        ELSE <<p[1] - n[1] * t, p[2] - n[2] * t, p[3] - n[3] * t>>

\* createCloudFromProjectionInPlane( cloudIn, cloudOut ): the points of cloudOut
createCloudFromProjectionInPlane(cloudIn, pl) ==
    [i \in 1..Len(cloudIn) |-> ProjectPoint(cloudIn[i], pl)]

\* A unit vector of the basis is kept as its direction d (an integer vector,
\* the unit vector is d/|d|) and nan: the normalisation divided 0 by 0.
Vec(d) == [d |-> d, nan |-> FALSE]
NaNVec == [d |-> Zero3, nan |-> TRUE]

\* v / v.norm()
Normalized(d) == IF d = Zero3 THEN NaNVec ELSE Vec(d)

\* computeTwoVectorsAndRefPoint() on a non-empty line1InPlane
computeTwoVectorsAndRefPoint(cloud, pl) ==
    LET v1 == Normalized(Sub3(cloud[Len(cloud)], cloud[1]))
        v2 == IF v1.nan THEN NaNVec
              ELSE Normalized(Cross3(Normal(pl), v1.d))
    IN  [refPoint |-> cloud[1], vector1 |-> v1, vector2 |-> v2]

\* One point of createCloudInPlane2D: the coordinates along vector1 and
\* vector2, in units of 1/|d| of each vector (the same positive factor for
\* every point of both lines, which no comparison of the hull computation or
\* of the classification depends on).
Point2D(p, ref, v1, v2) ==
    [x  |-> IF v1.nan THEN 0 ELSE Dot3(Sub3(p, ref), v1.d),
     nx |-> v1.nan,
     y  |-> IF v2.nan THEN 0 ELSE Dot3(Sub3(p, ref), v2.d),
     ny |-> v2.nan]

\* mutant of createCloudInPlane2D: each cloud measured from its own first point
createCloudInPlane2DOwnRef(cloudIn, ref, v1, v2) ==
    [i \in 1..Len(cloudIn) |-> Point2D(cloudIn[i], cloudIn[1], v1, v2)]

\* createCloudInPlane2D( cloudIn, cloudOut ): the points of cloudOut
createCloudInPlane2D(cloudIn, ref, v1, v2) ==
    [i \in 1..Len(cloudIn) |-> Point2D(cloudIn[i], ref, v1, v2)]

\* ------------------------------------------------------------ hull wrappers

\* for ( uint64_t count; count < size; count++ ): count is not initialised,
\* its first value is indeterminate.  Every value >= size skips the loop as
\* size does.
LoopStarts(size) == { s \in 0..size : s <= MaxStart \/ s = size }

\* mutant of AndrewsInput: numbers the points from 1
AndrewsInputFrom1(cloud, s) ==
    [j \in 1..(Len(cloud) - s) |->
        [x |-> cloud[s + j].x, y |-> cloud[s + j].y,
         nx |-> cloud[s + j].nx, ny |-> cloud[s + j].ny, index |-> s + j]]

\* the vector 'points' the first loop of computeVerticesOfHullAndrews builds
\* when its counter starts at s: point.index = count
AndrewsInput(cloud, s) ==
    [j \in 1..(Len(cloud) - s) |->
        [x |-> cloud[s + j].x, y |-> cloud[s + j].y,
         nx |-> cloud[s + j].nx, ny |-> cloud[s + j].ny, index |-> s + j - 1]]

\* the second loop, counter starting at s: hullVertices
VerticesFrom(h, s) ==
    [j \in 1..(Len(h) - s) |->
        [x |-> h[s + j].x, y |-> h[s + j].y, nx |-> h[s + j].nx, ny |-> h[s + j].ny]]

\* the third loop, counter starting at s: hullPointIndices.indices
IndicesFrom(h, s) == [j \in 1..(Len(h) - s) |-> h[s + j].index]

\* computeVerticesOfHullAndrews( cloudIn, hullVertices, hullPointIndices,
\* keepInformation ): every pair (vertices, indices) the call can leave
computeVerticesOfHullAndrews(cloud, oldIndices, keepInformation) ==
    UNION { UNION { { [vertices |-> VerticesFrom(h, s2),
                       indices  |-> IF keepInformation THEN IndicesFrom(h, s3)
                                    ELSE oldIndices] :
                      s2 \in LoopStarts(Len(h)),
                      s3 \in IF keepInformation THEN LoopStarts(Len(h)) ELSE {0} } :
                    h \in { AndrewsConvex_hull(AndrewsInput(cloud, s1), sorted).hull :
                            sorted \in SortedVectors(AndrewsInput(cloud, s1)) } } :
            s1 \in LoopStarts(Len(cloud)) }

\* ------------------------------------------------------- point in polygon

\* a <= b on float, false when either is NaN
NumLe(a, an, b, bn) == ~an /\ ~bn /\ a <= b

\* pcl::isXYPointIn2DXYPolygon, one pass of its loop: the edge from old to new
\* flips in_poly
EdgeFlips(pt, old, new) ==
    LET up == NumLt(old.x, old.nx, new.x, new.nx)
        p1 == IF up THEN old ELSE new
        p2 == IF up THEN new ELSE old
        anyNaN == pt.nx \/ pt.ny \/ old.nx \/ old.ny \/ new.nx \/ new.ny
    IN  /\ (NumLt(new.x, new.nx, pt.x, pt.nx) <=> NumLe(pt.x, pt.nx, old.x, old.nx))
        /\ ~anyNaN
        /\ (pt.y - p1.y) * (p2.x - p1.x) < (p2.y - p1.y) * (pt.x - p1.x)

\* pcl::isXYPointIn2DXYPolygon( point, polygon ) on a polygon of >= 1 vertex:
\* crossing-number test starting with the edge from the last vertex to the first
isXYPointIn2DXYPolygon(pt, polygon) ==
    LET n == Len(polygon)
    IN  Cardinality({ i \in 1..n :
            EdgeFlips(pt, polygon[IF i = 1 THEN n ELSE i - 1], polygon[i]) }) % 2 = 1

\* the positions (1-based) of the points of cloudIn that the loops of
\* findPointsInHull* find inside the hull, in loop order
RECURSIVE PositionsInHull(_, _, _)
PositionsInHull(cloudIn, hullVertices, i) ==
    IF i > Len(cloudIn) THEN <<>>
    ELSE (IF isXYPointIn2DXYPolygon(cloudIn[i], hullVertices) THEN <<i>> ELSE <<>>)
         \o PositionsInHull(cloudIn, hullVertices, i + 1)

\* ------------------------------------------------------------ HullOverlap

\* a cloud pointer: a shared_ptr holding a cloud, or nullptr
Ptr(pts) == [null |-> FALSE, pts |-> pts]
NullPtr == [null |-> TRUE, pts |-> <<>>]

\* the two strings the constructor accepts
ValidMethods == { "PCL ConcaveHull", "Andrew's" }

\* the 3D points the short lines are made of: two points with the same
\* projection on a horizontal plane and a third one
PointSet == { <<0, 0, 0>>, <<0, 0, 1>>, <<4, 0, 1>> }

\* every line of at most MaxLineLen points of PointSet
ShortLines == UNION { [1..n -> PointSet] : n \in 0..MaxLineLen }

\* three more lines: a triangle, two points inside it, two points far from it
Triangle == << <<0, 0, 0>>, <<4, 0, 1>>, <<0, 4, 0>> >>
Inner == << <<1, 1, 0>>, <<2, 1, 1>> >>
Far == << <<8, 8, 0>>, <<9, 8, 1>> >>

\* scenario 1 of the specification in units of 0.5: the unit square and its
\* centre, and the unit square moved by (0.5, -0.5)
Scenario1Line1 == << <<0, 0, 0>>, <<2, 0, 0>>, <<2, 2, 0>>, <<0, 2, 0>>, <<1, 1, 0>> >>
Scenario1Line2 == << <<1, -1, 0>>, <<3, -1, 0>>, <<3, 1, 0>>, <<1, 1, 0>> >>

\* the pairs (line1, line2) the engine is built on
LinePairs ==
    (ShortLines \X { Inner }) \cup ({ Triangle } \X (ShortLines \cup { Inner, Far }))
        \cup { <<Inner, Triangle>> }

\* the plane z = 0 and a plane with a zero normal
Planes == { [a |-> 0, b |-> 0, c |-> 1, d |-> 0],
            [a |-> 0, b |-> 0, c |-> 0, d |-> 0] }

Methods == ValidMethods \cup { "Graham" }

\* the member initialisers of the constructor
MembersAsConstructed ==
    /\ line1InPlane = Ptr(<<>>)
    /\ line2InPlane = Ptr(<<>>)
    /\ line1InPlane2D = Ptr(<<>>)
    /\ line2InPlane2D = Ptr(<<>>)
    /\ hull1Vertices = Ptr(<<>>)
    /\ hull2Vertices = Ptr(<<>>)
    /\ hull1PointIndices = <<>>
    /\ hull2PointIndices = <<>>
    /\ line1InBothHullPointIndices = <<>>
    /\ line2InBothHullPointIndices = <<>>
    /\ vector1 = Vec(<<1, 0, 0>>)
    /\ vector2 = Vec(<<0, 1, 0>>)
    /\ refPoint = Zero3

\* no invocation yet
NoArgs == [minimalMemory |-> FALSE, has1 |-> FALSE, has2 |-> FALSE]

\* everything but the constructor arguments, before the constructor body runs
EngineAtStart ==
    /\ MembersAsConstructed
    /\ line1InBothHull = <<>>
    /\ line2InBothHull = <<>>
    /\ args = NoArgs
    /\ pc = "new"
    /\ ret = <<>>
    /\ proc = "running"
    /\ fault = "none"
    /\ oob = FALSE
    /\ calls = 0
    /\ instances = 1
    /\ last = <<>>
    /\ prev = <<>>
    /\ modeRes = [full |-> <<>>, min |-> <<>>]

Init ==
    /\ \E lp \in LinePairs : line1 = lp[1] /\ line2 = lp[2]
    /\ plane \in Planes
    /\ hullMethod \in Methods
    /\ EngineAtStart
    /\ points = <<>> /\ points0 = <<>> /\ hull = <<>> /\ hpc = "unused"

\* the process dies on a null or wild pointer
Crash(why) ==
    /\ proc' = "crashed"
    /\ fault' = why
    /\ UNCHANGED <<hvars, inputs, members, outs, args, pc, ret, oob, calls, instances, seen>>

\* exit( 1 )
Exit1 ==
    /\ proc' = "exited"
    /\ fault' = "exit(1)"
    /\ UNCHANGED <<hvars, inputs, members, outs, args, pc, ret, oob, calls, instances, seen>>

\* HullOverlap::HullOverlap, the body: the check of hullMethod
Construct ==
    /\ proc = "running" /\ pc = "new"
    /\ IF hullMethod \notin ValidMethods
       THEN Exit1
       ELSE /\ pc' = "idle"
            /\ UNCHANGED <<hvars, inputs, members, outs, args, ret, process, calls,
                           instances, seen>>

\* computeHullsAndPointsInBothHulls( line1InBothHull, line2InBothHull,
\* minimalMemory ), entry: the output clouds that were passed are cleared
Enter(mm, h1, h2) ==
    /\ proc = "running" /\ pc = "idle"
    /\ calls < MaxCalls
    /\ args' = [minimalMemory |-> mm, has1 |-> h1, has2 |-> h2]
    /\ line1InBothHull' = IF h1 THEN <<>> ELSE line1InBothHull
    /\ line2InBothHull' = IF h2 THEN <<>> ELSE line2InBothHull
    /\ calls' = calls + 1
    /\ ret' = <<>>
    /\ pc' = "project1"
    /\ UNCHANGED <<hvars, inputs, members, process, instances, seen>>

computeHullsAndPointsInBothHulls ==
    \E mm \in BOOLEAN, h1 \in BOOLEAN, h2 \in BOOLEAN : Enter(mm, h1, h2)

\* computePointsInBothHulls( line1InBothHull, line2InBothHull )
computePointsInBothHulls ==
    \E h1 \in BOOLEAN, h2 \in BOOLEAN : Enter(TRUE, h1, h2)

\* createCloudFromProjectionInPlane( line1, line1InPlane )
ProjectLine1 ==
    /\ proc = "running" /\ pc = "project1"
    /\ IF line1InPlane.null
       THEN Crash("null dereference")
       ELSE /\ line1InPlane' = Ptr(createCloudFromProjectionInPlane(line1, plane))
            /\ pc' = "basis"
            /\ UNCHANGED <<hvars, inputs, line2InPlane, clouds2, hullsV, hullsI, overlapI,
                           basis, outs, args, ret, process, calls, instances, seen>>

\* what refPoint, vector1 and vector2 can hold after reads outside an empty
\* vector: any point and any vector, here two of each kind
WildBases ==
    { [refPoint |-> Zero3, vector1 |-> NaNVec, vector2 |-> NaNVec],
      [refPoint |-> Zero3, vector1 |-> Vec(<<1, 0, 0>>), vector2 |-> Vec(<<0, 1, 0>>)] }

\* computeTwoVectorsAndRefPoint(); on an empty line1InPlane points[ 0 ] and
\* points[ size - 1 ] are reads outside the vector
ComputeBasis ==
    /\ proc = "running" /\ pc = "basis"
    /\ IF Len(line1InPlane.pts) = 0
       THEN \/ Crash("out-of-range read")
            \/ /\ \E w \in WildBases :
                    /\ refPoint' = w.refPoint
                    /\ vector1' = w.vector1
                    /\ vector2' = w.vector2
               /\ oob' = TRUE
               /\ pc' = "map1"
               /\ UNCHANGED <<hvars, inputs, clouds3, clouds2, hullsV, hullsI, overlapI,
                              outs, args, ret, proc, fault, calls, instances, seen>>
       ELSE LET bs == computeTwoVectorsAndRefPoint(line1InPlane.pts, plane)
            IN  /\ refPoint' = bs.refPoint
                /\ vector1' = bs.vector1
                /\ vector2' = bs.vector2
                /\ pc' = "map1"
                /\ UNCHANGED <<hvars, inputs, clouds3, clouds2, hullsV, hullsI, overlapI,
                               outs, args, ret, process, calls, instances, seen>>

\* createCloudInPlane2D( line1InPlane, line1InPlane2D ), then in minimal-memory
\* mode line1InPlane.reset()
MapLine1 ==
    /\ proc = "running" /\ pc = "map1"
    /\ IF line1InPlane2D.null
       THEN Crash("null dereference")
       ELSE /\ line1InPlane2D' =
                  Ptr(createCloudInPlane2D(line1InPlane.pts, refPoint, vector1, vector2))
            /\ line1InPlane' = IF args.minimalMemory THEN NullPtr ELSE line1InPlane
            /\ pc' = "project2"
            /\ UNCHANGED <<hvars, inputs, line2InPlane, line2InPlane2D, hullsV, hullsI,
                           overlapI, basis, outs, args, ret, process, calls,
                           instances, seen>>

\* createCloudFromProjectionInPlane( line2, line2InPlane )
ProjectLine2 ==
    /\ proc = "running" /\ pc = "project2"
    /\ IF line2InPlane.null
       THEN Crash("null dereference")
       ELSE /\ line2InPlane' = Ptr(createCloudFromProjectionInPlane(line2, plane))
            /\ pc' = "map2"
            /\ UNCHANGED <<hvars, inputs, line1InPlane, clouds2, hullsV, hullsI, overlapI,
                           basis, outs, args, ret, process, calls, instances, seen>>

\* createCloudInPlane2D( line2InPlane, line2InPlane2D ), then in minimal-memory
\* mode line2InPlane.reset()
MapLine2 ==
    /\ proc = "running" /\ pc = "map2"
    /\ IF line2InPlane2D.null
       THEN Crash("null dereference")
       ELSE /\ line2InPlane2D' =
                  Ptr(createCloudInPlane2D(line2InPlane.pts, refPoint, vector1, vector2))
            /\ line2InPlane' = IF args.minimalMemory THEN NullPtr ELSE line2InPlane
            /\ pc' = "hulls"
            /\ UNCHANGED <<hvars, inputs, line1InPlane, line1InPlane2D, hullsV, hullsI,
                           overlapI, basis, outs, args, ret, process, calls,
                           instances, seen>>

\* computeVerticesOfConcaveHull( cloudIn, alpha, hullVertices,
\* hullPointIndices, keepInformation ).  pcl::ConcaveHull is an external
\* capability; it is taken at the limit of a large alpha, where the alpha
\* shape is the convex hull, and as a function of its input.
computeVerticesOfConcaveHull(cloud, oldIndices, keepInformation) ==
    LET pts == AndrewsInput(cloud, 0)
        h   == AndrewsConvex_hull(pts, CHOOSE v \in SortedVectors(pts) : TRUE).hull
    IN  [vertices |-> VerticesFrom(h, 0),
         indices  |-> IF keepInformation THEN IndicesFrom(h, 0) ELSE oldIndices]

\* the hull of one line by the method of the object: what the call can leave
\* in hullVertices and hullPointIndices
HullResults(cloud, oldIndices, keepInformation) ==
    IF hullMethod = "PCL ConcaveHull"
    THEN { computeVerticesOfConcaveHull(cloud, oldIndices, keepInformation) }
    ELSE computeVerticesOfHullAndrews(cloud, oldIndices, keepInformation)

\* the if / else if / else on hullMethod: both hulls
FindHulls ==
    /\ proc = "running" /\ pc = "hulls"
    /\ IF hullMethod \notin ValidMethods
       THEN Exit1
       ELSE IF hull1Vertices.null \/ hull2Vertices.null
       THEN Crash("null dereference")
       ELSE /\ \E r1 \in HullResults(line1InPlane2D.pts, hull1PointIndices,
                                     ~args.minimalMemory),
                  r2 \in HullResults(line2InPlane2D.pts, hull2PointIndices,
                                     ~args.minimalMemory) :
                    /\ hull1Vertices' = Ptr(r1.vertices)
                    /\ hull1PointIndices' = r1.indices
                    /\ hull2Vertices' = Ptr(r2.vertices)
                    /\ hull2PointIndices' = r2.indices
            /\ pc' = "classify1"
            /\ UNCHANGED <<hvars, inputs, clouds3, clouds2, overlapI, basis, outs, args,
                           ret, process, calls, instances, seen>>

\* the points of lineOriginal at the positions found
PointsAt(lineOriginal, pos) == [k \in 1..Len(pos) |-> lineOriginal[pos[k]]]

\* mutant of IndicesAt: pushes count + 1
IndicesFromOne(pos) == pos

\* the 0-based indices pushed for the positions found
IndicesAt(pos) == [k \in 1..Len(pos) |-> pos[k] - 1]

\* isXYPointIn2DXYPolygon reads polygon.points[ size - 1 ] first: with an
\* empty polygon every call reads outside the vector
WildPolygonRead(cloudIn, hullVertices) == Len(cloudIn) > 0 /\ Len(hullVertices) = 0

\* both output clouds were passed
BothClouds == args.has1 /\ args.has2

\* Points of line 1 inside hull 2: findPointsInHullOnlyPoints and the release
\* of line1InPlane2D and hull2Vertices (minimal memory), findPointsInHull
\* (full mode), or findPointsInHullOnlyPointIndices (an output cloud missing)
Classify1 ==
    /\ proc = "running" /\ pc = "classify1"
    /\ LET pos == PositionsInHull(line1InPlane2D.pts, hull2Vertices.pts, 1)
           wild == WildPolygonRead(line1InPlane2D.pts, hull2Vertices.pts)
       IN  \/ wild /\ Crash("out-of-range read")
           \/ /\ oob' = (oob \/ wild)
              /\ line1InBothHull' =
                    IF BothClouds THEN PointsAt(line1, pos) ELSE line1InBothHull
              /\ line1InBothHullPointIndices' =
                    IF BothClouds /\ args.minimalMemory
                    THEN line1InBothHullPointIndices ELSE IndicesAt(pos)
              /\ line1InPlane2D' =
                    IF BothClouds /\ args.minimalMemory THEN NullPtr ELSE line1InPlane2D
              /\ hull2Vertices' =
                    IF BothClouds /\ args.minimalMemory THEN NullPtr ELSE hull2Vertices
              /\ pc' = "classify2"
              /\ UNCHANGED <<hvars, inputs, clouds3, line2InPlane2D, hull1Vertices, hullsI,
                             line2InBothHullPointIndices, basis, line2InBothHull,
                             args, ret, proc, fault, calls, instances, seen>>

\* what the caller has in hand when an invocation returns
Seen(r, o1, o2, i1, i2) ==
    [args |-> args, ret |-> r, out1 |-> o1, out2 |-> o2, idx1 |-> i1, idx2 |-> i2]

\* Points of line 2 inside hull 1, as for line 1, then the return of the pair
\* of counts: the sizes of the output clouds, or of the index lists when an
\* output cloud is missing
Classify2 ==
    /\ proc = "running" /\ pc = "classify2"
    /\ LET pos == PositionsInHull(line2InPlane2D.pts, hull1Vertices.pts, 1)
           wild == WildPolygonRead(line2InPlane2D.pts, hull1Vertices.pts)
           o2 == IF BothClouds THEN PointsAt(line2, pos) ELSE line2InBothHull
           i2 == IF BothClouds /\ args.minimalMemory
                 THEN line2InBothHullPointIndices ELSE IndicesAt(pos)
           r  == IF BothClouds
                 THEN <<Len(line1InBothHull), Len(o2)>>
                 ELSE <<Len(line1InBothHullPointIndices), Len(i2)>>
           s  == Seen(r, line1InBothHull, o2, line1InBothHullPointIndices, i2)
       IN  \/ wild /\ Crash("out-of-range read")
           \/ /\ oob' = (oob \/ wild)
              /\ line2InBothHull' = o2
              /\ line2InBothHullPointIndices' = i2
              /\ line2InPlane2D' =
                    IF BothClouds /\ args.minimalMemory THEN NullPtr ELSE line2InPlane2D
              /\ hull1Vertices' =
                    IF BothClouds /\ args.minimalMemory THEN NullPtr ELSE hull1Vertices
              /\ ret' = r
              /\ prev' = last
              /\ last' = <<s>>
              /\ modeRes' =
                    IF calls = 1 /\ BothClouds
                    THEN IF args.minimalMemory
                         THEN [modeRes EXCEPT !.min = <<[s EXCEPT !.args = NoArgs]>>]
                         ELSE [modeRes EXCEPT !.full = <<[s EXCEPT !.args = NoArgs]>>]
                    ELSE modeRes
              /\ pc' = "idle"
              /\ UNCHANGED <<hvars, inputs, clouds3, line1InPlane2D, hull2Vertices, hullsI,
                             line1InBothHullPointIndices, basis, line1InBothHull,
                             args, proc, fault, calls, instances>>

\* the caller builds another HullOverlap on the same arguments and goes on
\* with it
NewInstance ==
    /\ proc = "running" /\ pc = "idle"
    /\ instances < MaxInstances
    /\ line1InPlane' = Ptr(<<>>)
    /\ line2InPlane' = Ptr(<<>>)
    /\ line1InPlane2D' = Ptr(<<>>)
    /\ line2InPlane2D' = Ptr(<<>>)
    /\ hull1Vertices' = Ptr(<<>>)
    /\ hull2Vertices' = Ptr(<<>>)
    /\ hull1PointIndices' = <<>>
    /\ hull2PointIndices' = <<>>
    /\ line1InBothHullPointIndices' = <<>>
    /\ line2InBothHullPointIndices' = <<>>
    /\ vector1' = Vec(<<1, 0, 0>>)
    /\ vector2' = Vec(<<0, 1, 0>>)
    /\ refPoint' = Zero3
    /\ args' = NoArgs
    /\ ret' = <<>>
    /\ calls' = 0
    /\ instances' = instances + 1
    /\ last' = <<>>
    /\ prev' = <<>>
    /\ pc' = "new"
    /\ UNCHANGED <<hvars, inputs, outs, process, modeRes>>

Invocation ==
    \/ ProjectLine1 \/ ComputeBasis \/ MapLine1 \/ ProjectLine2 \/ MapLine2
    \/ FindHulls \/ Classify1 \/ Classify2

\* one HullOverlap, invoked up to MaxCalls times
Next ==
    \/ Construct
    \/ computeHullsAndPointsInBothHulls
    \/ computePointsInBothHulls
    \/ Invocation

Spec == Init /\ [][Next]_vars

\* a HullOverlap on the lines of scenario 1 and the plane z = 0
InitScenario1 ==
    /\ line1 = Scenario1Line1
    /\ line2 = Scenario1Line2
    /\ plane = [a |-> 0, b |-> 0, c |-> 1, d |-> 0]
    /\ hullMethod \in Methods
    /\ EngineAtStart
    /\ points = <<>> /\ points0 = <<>> /\ hull = <<>> /\ hpc = "unused"

\* one HullOverlap, invoked once
NextOnce ==
    \/ Construct
    \/ calls = 0 /\ computeHullsAndPointsInBothHulls
    \/ calls = 0 /\ computePointsInBothHulls
    \/ Invocation

SpecScenario1 == InitScenario1 /\ [][NextOnce]_vars

\* two triangles with negative coordinates, each with one vertex strictly
\* inside the other
OverlappingLine1 == << <<-5, -5, 0>>, <<-3, -4, 1>>, <<-5, -3, 0>> >>
OverlappingLine2 == << <<-5, -2, 0>>, <<-4, -4, 0>>, <<-1, -5, 1>> >>

\* a HullOverlap on the two overlapping triangles and the plane z = 0
InitOverlapping ==
    /\ line1 = OverlappingLine1
    /\ line2 = OverlappingLine2
    /\ plane = [a |-> 0, b |-> 0, c |-> 1, d |-> 0]
    /\ hullMethod \in Methods
    /\ EngineAtStart
    /\ points = <<>> /\ points0 = <<>> /\ hull = <<>> /\ hpc = "unused"

SpecOverlapping == InitOverlapping /\ [][Next]_vars

\* one HullOverlap on any of the line pairs, invoked once
SpecOnce == Init /\ [][NextOnce]_vars

\* the lines of two points of a small 3D grid
BasisPoints == { <<x, y, z>> : x \in 0..BasisGridMax, y \in 0..BasisGridMax,
                               z \in 0..BasisGridMax }
BasisLines == [1..2 -> BasisPoints]

\* the planes with a unit normal along an axis, through the origin or not
BasisPlanes ==
    { [a |-> n[1], b |-> n[2], c |-> n[3], d |-> d] :
        n \in { <<1, 0, 0>>, <<-1, 0, 0>>, <<0, 1, 0>>, <<0, -1, 0>>,
                 <<0, 0, 1>>, <<0, 0, -1>> },
        d \in { 0, 1 } }

\* a HullOverlap on a line 1 of two grid points and an axis plane
InitBasis ==
    /\ line1 \in BasisLines
    /\ line2 = Inner
    /\ plane \in BasisPlanes
    /\ hullMethod = "Andrew's"
    /\ EngineAtStart
    /\ points = <<>> /\ points0 = <<>> /\ hull = <<>> /\ hpc = "unused"

\* the constructor and one invocation up to the basis
NextBasis ==
    \/ Construct
    \/ calls = 0 /\ computeHullsAndPointsInBothHulls
    \/ ProjectLine1
    \/ ComputeBasis

SpecBasis == InitBasis /\ [][NextBasis]_vars

\* up to MaxInstances HullOverlap on the same arguments, each invoked once
NextModes ==
    \/ Construct
    \/ calls = 0 /\ computeHullsAndPointsInBothHulls
    \/ Invocation
    \/ NewInstance

SpecModes == Init /\ [][NextModes]_vars

\* ---------------------------------------------------------- the accessors

\* an accessor can be called once the object is built and no invocation runs
Callable == proc = "running" /\ pc = "idle"

getConstPtrlineInBothHullPointIndices(lineNumber) ==
    IF lineNumber < 0 \/ lineNumber > 1 THEN NullPtr
    ELSE IF lineNumber = 0 THEN Ptr(line1InBothHullPointIndices)
    ELSE Ptr(line2InBothHullPointIndices)

getConstPtrlineInPlane2D(lineNumber) ==
    IF lineNumber < 0 \/ lineNumber > 1 THEN NullPtr
    ELSE IF lineNumber = 0 THEN line1InPlane2D
    ELSE line2InPlane2D

getConstPtrlineInPlane3D(lineNumber) ==
    IF lineNumber < 0 \/ lineNumber > 1 THEN NullPtr
    ELSE IF lineNumber = 0 THEN line1InPlane
    ELSE line2InPlane

getConstPtrVerticesIndices(lineNumber) ==
    IF lineNumber < 0 \/ lineNumber > 1 THEN NullPtr
    ELSE IF lineNumber = 0 THEN Ptr(hull1PointIndices)
    ELSE Ptr(hull2PointIndices)

getNbPointsInOverlap(lineNumber) ==
    IF lineNumber < 0 \/ lineNumber > 1 THEN 0
    ELSE IF lineNumber = 0 THEN Len(line1InBothHullPointIndices)
    ELSE Len(line2InBothHullPointIndices)

\* ------------------------------------------------------ the bounding boxes

\* a coordinate of minPt or maxPt: a number, or +infinity, what
\* std::numeric_limits<double>::max() becomes when it is stored in a float
Num(v) == [v |-> v, inf |-> FALSE]
Infinity == [v |-> 0, inf |-> TRUE]

\* the running minimum, starting at std::numeric_limits<double>::max():
\* lim tells that it still has the starting value
RECURSIVE MinOver(_, _, _)
MinOver(vals, i, acc) ==
    IF i > Len(vals) THEN acc
    ELSE MinOver(vals, i + 1,
            IF ~vals[i].nan /\ (acc.lim \/ vals[i].v < acc.v)
            THEN [lim |-> FALSE, v |-> vals[i].v] ELSE acc)

\* the running maximum, starting at std::numeric_limits<double>::min(), the
\* smallest positive double: a coordinate replaces it only if it is positive
RECURSIVE MaxOver(_, _, _)
MaxOver(vals, i, acc) ==
    IF i > Len(vals) THEN acc
    ELSE MaxOver(vals, i + 1,
            IF ~vals[i].nan /\ ((acc.lim /\ vals[i].v > 0) \/ (~acc.lim /\ vals[i].v > acc.v))
            THEN [lim |-> FALSE, v |-> vals[i].v] ELSE acc)

\* minPt.x = xMin: the double stored in a float
MinStored(vals) ==
    LET m == MinOver(vals, 1, [lim |-> TRUE, v |-> 0])
    IN  IF m.lim THEN Infinity ELSE Num(m.v)

\* maxPt.x = xMax: the smallest positive double is stored as 0
MaxStored(vals) ==
    LET m == MaxOver(vals, 1, [lim |-> TRUE, v |-> 0])
    IN  IF m.lim THEN Num(0) ELSE Num(m.v)

\* the guard of both functions: points of both lines in the overlap
BothIndexListsFilled ==
    Len(line1InBothHullPointIndices) > 0 /\ Len(line2InBothHullPointIndices) > 0

\* the result of a bounding-box function that does not enter its if
NoBox(minPt, maxPt) ==
    [OK |-> FALSE, minPt |-> minPt, maxPt |-> maxPt, fault |-> "none", read |-> FALSE]

\* the result of a bounding-box function that fails on a read
BoxFault(minPt, maxPt, why) ==
    [OK |-> FALSE, minPt |-> minPt, maxPt |-> maxPt, fault |-> why, read |-> TRUE]

\* the reads cloud->points[ indices[ count ] ] of the two loops can be made
BoxFaultOf(cloud1, cloud2) ==
    IF cloud1.null \/ cloud2.null THEN "null dereference"
    ELSE IF \/ \E k \in 1..Len(line1InBothHullPointIndices) :
                  line1InBothHullPointIndices[k] >= Len(cloud1.pts)
            \/ \E k \in 1..Len(line2InBothHullPointIndices) :
                  line2InBothHullPointIndices[k] >= Len(cloud2.pts)
    THEN "out-of-range read"
    ELSE "none"

\* the 2D coordinates x or y that the two loops read, in loop order
Read2D(c) ==
    [k \in 1..Len(line1InBothHullPointIndices) |->
        LET q == line1InPlane2D.pts[line1InBothHullPointIndices[k] + 1]
        IN  IF c = "x" THEN [v |-> q.x, nan |-> q.nx] ELSE [v |-> q.y, nan |-> q.ny]]
    \o
    [k \in 1..Len(line2InBothHullPointIndices) |->
        LET q == line2InPlane2D.pts[line2InBothHullPointIndices[k] + 1]
        IN  IF c = "x" THEN [v |-> q.x, nan |-> q.nx] ELSE [v |-> q.y, nan |-> q.ny]]

\* the projected 3D coordinates of component c that the two loops read
Read3D(c) ==
    [k \in 1..Len(line1InBothHullPointIndices) |->
        [v |-> line1InPlane.pts[line1InBothHullPointIndices[k] + 1][c], nan |-> FALSE]]
    \o
    [k \in 1..Len(line2InBothHullPointIndices) |->
        [v |-> line2InPlane.pts[line2InBothHullPointIndices[k] + 1][c], nan |-> FALSE]]

\* getMinMaxPointsInOverlapPlane2D( minPt, maxPt ): the value returned, the
\* two points after the call, and whether a cloud was read
getMinMaxPointsInOverlapPlane2D(minPt, maxPt) ==
    IF ~BothIndexListsFilled THEN NoBox(minPt, maxPt)
    ELSE IF BoxFaultOf(line1InPlane2D, line2InPlane2D) # "none"
    THEN BoxFault(minPt, maxPt, BoxFaultOf(line1InPlane2D, line2InPlane2D))
    ELSE [OK |-> TRUE,
          minPt |-> <<MinStored(Read2D("x")), MinStored(Read2D("y")), Num(0)>>,
          maxPt |-> <<MaxStored(Read2D("x")), MaxStored(Read2D("y")), Num(0)>>,
          fault |-> "none", read |-> TRUE]

\* getMinMaxPointsInOverlapPlane3D( minPt, maxPt )
getMinMaxPointsInOverlapPlane3D(minPt, maxPt) ==
    IF ~BothIndexListsFilled THEN NoBox(minPt, maxPt)
    ELSE IF BoxFaultOf(line1InPlane, line2InPlane) # "none"
    THEN BoxFault(minPt, maxPt, BoxFaultOf(line1InPlane, line2InPlane))
    ELSE [OK |-> TRUE,
          minPt |-> <<MinStored(Read3D(1)), MinStored(Read3D(2)), MinStored(Read3D(3))>>,
          maxPt |-> <<MaxStored(Read3D(1)), MaxStored(Read3D(2)), MaxStored(Read3D(3))>>,
          fault |-> "none", read |-> TRUE]

\* ------------------------------------------- the hull function on its own

\* the points of the grid: GridMax + 1 columns, GridMax rows
Grid == { <<x, y>> : x \in 0..GridMax, y \in 0..(GridMax - 1) }

InitHull ==
    /\ points = <<>>
    /\ points0 = <<>>
    /\ hull = <<>>
    /\ hpc = "build"
    /\ line1 = <<>> /\ line2 = <<>>
    /\ plane = [a |-> 0, b |-> 0, c |-> 1, d |-> 0]
    /\ hullMethod = "Andrew's"
    /\ EngineAtStart

\* The caller fills the vector as computeVerticesOfHullAndrews does:
\* point.index = count; points.push_back( point )
PushPoint ==
    /\ hpc = "build"
    /\ Len(points) < MaxHullN
    /\ \E g \in Grid :
          points' = Append(points, PointAndrews(g[1], g[2], Len(points)))
    /\ points0' = points'
    /\ UNCHANGED <<hull, hpc, evars>>

\* AndrewsConvex_hull( hull, points )
CallAndrews ==
    /\ hpc = "build"
    /\ \E sorted \in SortedVectors(points) :
          LET r == AndrewsConvex_hull(points, sorted)
          IN  /\ hull' = r.hull
              /\ points' = r.points
    /\ hpc' = "done"
    /\ UNCHANGED <<points0, evars>>

NextHull == PushPoint \/ CallAndrews

SpecHull == InitHull /\ [][NextHull]_vars

\* ----------------------------------------------------- hull properties

\* same coordinates
SameXY(p, q) == p.x = q.x /\ p.y = q.y

\* position after i in a list of n read cyclically
CycNext(i, n) == (i % n) + 1

\* all points of a vector lie on one line (or coincide)
AllCollinear(v) ==
    \A i, j, k \in 1..Len(v) : cross(v[i], v[j], v[k]) = 0

\* no three cyclically consecutive vertices of h are collinear
NoCollinearTriple(h) ==
    \A i \in 1..Len(h) :
        cross(h[i], h[CycNext(i, Len(h))],
              h[CycNext(CycNext(i, Len(h)), Len(h))]) # 0

C10_Original ==
    (hpc = "done" /\ Len(points0) > 3) => NoCollinearTriple(hull)

\* C10 amended: for every input of more than 3 points that are not all on one
\* line, the returned list has at least 3 vertices and, read cyclically, no
\* three consecutive vertices are collinear.
C10_StrictlyConvex ==
    (hpc = "done" /\ Len(points0) > 3 /\ ~AllCollinear(points0)) =>
        (Len(hull) >= 3 /\ NoCollinearTriple(hull))

\* C10 witness: an input with three distinct collinear points whose middle
\* one is left out of a hull of at least 3 vertices.
C10_Witness ==
    /\ hpc = "done"
    /\ Len(points0) > 3
    /\ ~AllCollinear(points0)
    /\ Len(hull) >= 3
    /\ NoCollinearTriple(hull)
    /\ \E i, j, k \in 1..Len(points0) :
          /\ cross(points0[i], points0[j], points0[k]) = 0
          /\ LessAndrews(points0[i], points0[j])
          /\ LessAndrews(points0[j], points0[k])
          /\ \A m \in 1..Len(hull) : ~SameXY(hull[m], points0[j])

\* ------------------------------------------- properties of the invocations

\* the stages of an invocation that come after the 2D mapping of line 1
AfterMapLine1 == { "project2", "map2", "hulls", "classify1", "classify2" }

\* an invocation has returned
Returned == proc = "running" /\ pc = "idle" /\ calls >= 1

\* C1: with the same lines, plane and hull method, the first invocation in
\* full mode and the first invocation in minimal-memory mode, both output
\* clouds passed, return the same pair of counts and leave the same point
\* sequences in line1InBothHull and line2InBothHull.
C1_ModeEquivalence ==
    (modeRes.full # <<>> /\ modeRes.min # <<>>) =>
        /\ modeRes.full[1].ret = modeRes.min[1].ret
        /\ modeRes.full[1].out1 = modeRes.min[1].out1
        /\ modeRes.full[1].out2 = modeRes.min[1].out2

\* C2: a second invocation on the same object with the arguments of the
\* first one completes, and returns the counts, the output point sequences
\* and the overlap index lists of the first one.
C2_Idempotent ==
    /\ (calls = 2 /\ pc # "idle" /\ last # <<>> /\ args = last[1].args)
            => proc = "running"
    /\ (calls = 2 /\ pc = "idle" /\ prev # <<>> /\ last # <<>>
            /\ prev[1].args = last[1].args) => prev = last

\* C3: with a hull-method string that is neither "PCL ConcaveHull" nor
\* "Andrew's" no hull and no classification is computed and the process is
\* not terminated by the engine.
C3_InvalidMethodRejected ==
    hullMethod \notin ValidMethods =>
        /\ proc # "exited"
        /\ pc \notin { "classify1", "classify2" }
        /\ calls = 0

\* line 1 has fewer than 2 points, or its first and last projected points
\* coincide, or the plane normal is zero
DegenerateBasis ==
    LET c == createCloudFromProjectionInPlane(line1, plane)
    IN  \/ Len(line1) < 2
        \/ c[1] = c[Len(c)]
        \/ Normal(plane) = Zero3

\* C4: with a degenerate basis no invocation gets as far as computing a 2D
\* coordinate, a hull or a classification.
C4_DegenerateBasisRaised ==
    (DegenerateBasis /\ Len(line1) > 0) =>
        /\ pc \notin AfterMapLine1
        /\ ~Returned

\* C5: with an empty line 1 or an empty line 2 an invocation makes no read
\* outside a vector and does not fail, and what it returns for the empty
\* line is empty: count, overlap subset and overlap index list.
C5_EmptyLine ==
    /\ (line1 = <<>> \/ line2 = <<>>) => (proc # "crashed" /\ ~oob)
    /\ (line1 = <<>> /\ Returned) =>
            /\ ret[1] = 0
            /\ args.has1 => line1InBothHull = <<>>
            /\ line1InBothHullPointIndices = <<>>
    /\ (line2 = <<>> /\ Returned) =>
            /\ ret[2] = 0
            /\ args.has2 => line2InBothHull = <<>>
            /\ line2InBothHullPointIndices = <<>>

\* line numbers outside {0, 1}
InvalidLineNumbers == { -1, 2 }

\* C6: whenever the accessors can be called, what each of them returns for a
\* line number outside {0, 1} differs from what it returns for 0 and for 1.
C6_InvalidSelector ==
    Callable =>
        \A bad \in InvalidLineNumbers, lineNumber \in { 0, 1 } :
            /\ getConstPtrlineInBothHullPointIndices(bad)
                    # getConstPtrlineInBothHullPointIndices(lineNumber)
            /\ getConstPtrlineInPlane2D(bad) # getConstPtrlineInPlane2D(lineNumber)
            /\ getConstPtrlineInPlane3D(bad) # getConstPtrlineInPlane3D(lineNumber)
            /\ getConstPtrVerticesIndices(bad) # getConstPtrVerticesIndices(lineNumber)
            /\ getNbPointsInOverlap(bad) # getNbPointsInOverlap(lineNumber)

\* C7: in an invocation with minimalMemory = true the projected 3D cloud of
\* line 1 is released before line 2 is projected, and when the invocation
\* returns none of the two projected 3D clouds, the two 2D clouds and the two
\* hulls is still held, whether or not both output clouds were passed.
C7_MinimalMemoryRelease ==
    (proc = "running" /\ ~oob /\ args.minimalMemory) =>
        /\ pc \in AfterMapLine1 => line1InPlane.null
        /\ Returned =>
            /\ line1InPlane.null /\ line2InPlane.null
            /\ line1InPlane2D.null /\ line2InPlane2D.null
            /\ hull1Vertices.null /\ hull2Vertices.null

\* -------------------------------------------------- geometry of the plane

\* a 2D point with no NaN coordinate
Finite(p) == ~p.nx /\ ~p.ny

\* twice the signed area of the triangle a, b, c
Orient(a, b, c) == (b.x - a.x) * (c.y - a.y) - (b.y - a.y) * (c.x - a.x)

\* p lies on the closed segment from a to b
OnSegment(p, a, b) ==
    /\ Orient(a, b, p) = 0
    /\ (a.x <= p.x /\ p.x <= b.x) \/ (b.x <= p.x /\ p.x <= a.x)
    /\ (a.y <= p.y /\ p.y <= b.y) \/ (b.y <= p.y /\ p.y <= a.y)

\* p lies in the closed triangle a, b, c, which is not flat
InTriangle(p, a, b, c) ==
    /\ Orient(a, b, c) # 0
    /\ \/ Orient(a, b, p) >= 0 /\ Orient(b, c, p) >= 0 /\ Orient(c, a, p) >= 0
       \/ Orient(a, b, p) <= 0 /\ Orient(b, c, p) <= 0 /\ Orient(c, a, p) <= 0

\* p lies inside or on the convex polygon spanned by the vertices v: on a
\* segment between two of them or in a triangle of three of them
InsideOrOn(p, v) ==
    /\ Finite(p)
    /\ \E i, j \in { k \in 1..Len(v) : Finite(v[k]) } :
          \/ OnSegment(p, v[i], v[j])
          \/ \E m \in { k \in 1..Len(v) : Finite(v[k]) } :
                InTriangle(p, v[i], v[j], v[m])

\* p lies on the boundary of the convex polygon spanned by v: inside or on
\* it, and on the segment between two vertices that has every vertex on one
\* side
OnBoundary(p, v) ==
    /\ Finite(p)
    /\ \E i, j \in { k \in 1..Len(v) : Finite(v[k]) } :
          /\ OnSegment(p, v[i], v[j])
          /\ \/ \A m \in 1..Len(v) : Orient(v[i], v[j], v[m]) >= 0
             \/ \A m \in 1..Len(v) : Orient(v[i], v[j], v[m]) <= 0

\* both hulls are built and nothing is classified or released yet
HullsBuilt == proc = "running" /\ pc = "classify1"

\* C11: with the Andrew's method every point of line 1 that the
\* classification finds inside hull 2 lies inside or on hull 1, and every
\* point of line 2 that it finds inside hull 1 lies inside or on hull 2.
C11_OwnHull ==
    (HullsBuilt /\ hullMethod = "Andrew's") =>
        /\ \A i \in 1..Len(line1InPlane2D.pts) :
              isXYPointIn2DXYPolygon(line1InPlane2D.pts[i], hull2Vertices.pts)
                  => InsideOrOn(line1InPlane2D.pts[i], hull1Vertices.pts)
        /\ \A i \in 1..Len(line2InPlane2D.pts) :
              isXYPointIn2DXYPolygon(line2InPlane2D.pts[i], hull1Vertices.pts)
                  => InsideOrOn(line2InPlane2D.pts[i], hull2Vertices.pts)

\* the vertex list h spans a polygon that holds every point of the cloud
Encloses(h, cloud) == \A i \in 1..Len(cloud) : InsideOrOn(cloud[i], h)

\* every point of the cloud on the boundary of the polygon h is classified
\* inside h
BoundaryIsInside(cloud, h) ==
    \A i \in 1..Len(cloud) :
        OnBoundary(cloud[i], h) => isXYPointIn2DXYPolygon(cloud[i], h)

\* C12: a point of a line whose 2D image lies on an edge or on a vertex of the
\* hull of the other line is classified inside; in scenario 1 the centre
\* (0.5, 0.5, 0) of line 1 is classified inside hull 2 and the corners
\* (0, 0, 0) and (0, 1, 0) are not.
C12_BoundaryInclusive ==
    (/\ HullsBuilt
     /\ Encloses(hull1Vertices.pts, line1InPlane2D.pts)
     /\ Encloses(hull2Vertices.pts, line2InPlane2D.pts)) =>
        /\ BoundaryIsInside(line1InPlane2D.pts, hull2Vertices.pts)
        /\ BoundaryIsInside(line2InPlane2D.pts, hull1Vertices.pts)
        /\ (line1 = Scenario1Line1 /\ line2 = Scenario1Line2) =>
              /\ isXYPointIn2DXYPolygon(line1InPlane2D.pts[5], hull2Vertices.pts)
              /\ ~isXYPointIn2DXYPolygon(line1InPlane2D.pts[1], hull2Vertices.pts)
              /\ ~isXYPointIn2DXYPolygon(line1InPlane2D.pts[4], hull2Vertices.pts)

\* the projected points of the two lines have bounding boxes that do not
\* overlap: along one axis every point of one line is beyond every point of
\* the other
DisjointLines ==
    LET c1 == createCloudFromProjectionInPlane(line1, plane)
        c2 == createCloudFromProjectionInPlane(line2, plane)
    IN  /\ line1 # <<>> /\ line2 # <<>>
        /\ \E k \in 1..3 :
              \/ \A i \in 1..Len(c1), j \in 1..Len(c2) : c1[i][k] < c2[j][k]
              \/ \A i \in 1..Len(c1), j \in 1..Len(c2) : c2[j][k] < c1[i][k]

\* C13: on two lines whose projected bounding boxes do not overlap, line 1
\* giving a basis, the first invocation does not fail and returns (0, 0), with both overlap subsets and
\* both overlap index lists empty, whatever the mode and the line lengths.
C13_DisjointLines ==
    (DisjointLines /\ ~DegenerateBasis /\ calls = 1) =>
        /\ proc # "crashed" /\ ~oob
        /\ Returned =>
              /\ ret = <<0, 0>>
              /\ args.has1 => line1InBothHull = <<>>
              /\ args.has2 => line2InBothHull = <<>>
              /\ line1InBothHullPointIndices = <<>>
              /\ line2InBothHullPointIndices = <<>>

\* --------------------------------------- properties of the bounding boxes

\* what the caller has in minPt and maxPt before a bounding-box call
CallerPoints == { <<Num(7), Num(7), Num(7)>>, <<Num(-7), Num(0), Num(7)>> }

\* the number of points of line k (1 or 2) that the last invocation on this
\* object found in the overlap; 0 before any invocation
OverlapCount(k) == IF last = <<>> THEN 0 ELSE last[1].ret[k]

\* C14: whenever the last invocation found no overlap point for line 1 or for
\* line 2, and before any invocation, both bounding-box functions return
\* false, leave minPt and maxPt as they were and read no cloud.
C14_NoResult ==
    (Callable /\ (OverlapCount(1) = 0 \/ OverlapCount(2) = 0)) =>
        \A minPt \in CallerPoints, maxPt \in CallerPoints :
            /\ getMinMaxPointsInOverlapPlane2D(minPt, maxPt) = NoBox(minPt, maxPt)
            /\ getMinMaxPointsInOverlapPlane3D(minPt, maxPt) = NoBox(minPt, maxPt)

\* the smallest and the largest number of a non-empty sequence of numbers
Smallest(vals) ==
    CHOOSE m \in { vals[i].v : i \in 1..Len(vals) } :
        \A i \in 1..Len(vals) : m <= vals[i].v
Largest(vals) ==
    CHOOSE m \in { vals[i].v : i \in 1..Len(vals) } :
        \A i \in 1..Len(vals) : m >= vals[i].v

\* the last invocation was in full mode and found overlap points on both lines
FullModeOverlap ==
    /\ Returned
    /\ ~args.minimalMemory
    /\ OverlapCount(1) > 0 /\ OverlapCount(2) > 0

\* C15: after a full-mode invocation that found overlap points on both lines,
\* both bounding-box functions return true with minPt and maxPt the
\* componentwise minimum and maximum of the coordinates of the overlap points
\* of both lines, in the 2D frame and in the projected 3D frame.
C15_BoxValue ==
    FullModeOverlap =>
        \A minPt \in CallerPoints, maxPt \in CallerPoints :
            /\ getMinMaxPointsInOverlapPlane2D(minPt, maxPt) =
                  [OK |-> TRUE,
                   minPt |-> <<Num(Smallest(Read2D("x"))), Num(Smallest(Read2D("y"))), Num(0)>>,
                   maxPt |-> <<Num(Largest(Read2D("x"))), Num(Largest(Read2D("y"))), Num(0)>>,
                   fault |-> "none", read |-> TRUE]
            /\ getMinMaxPointsInOverlapPlane3D(minPt, maxPt) =
                  [OK |-> TRUE,
                   minPt |-> <<Num(Smallest(Read3D(1))), Num(Smallest(Read3D(2))),
                               Num(Smallest(Read3D(3)))>>,
                   maxPt |-> <<Num(Largest(Read3D(1))), Num(Largest(Read3D(2))),
                               Num(Largest(Read3D(3)))>>,
                   fault |-> "none", read |-> TRUE]

\* ---------------------------------------------- properties of the results

\* the last invocation was in full mode with both output clouds and returned
FullModeBothClouds == Returned /\ ~args.minimalMemory /\ BothClouds

\* the index list idx and the output cloud out are the same subsequence of
\* the line: increasing indices within the line, one output point per index,
\* each the original point of the line at that index
FaithfulSubsequence(line, idx, out) ==
    /\ \A k \in 1..(Len(idx) - 1) : idx[k] < idx[k + 1]
    /\ \A k \in 1..Len(idx) : idx[k] >= 0 /\ idx[k] < Len(line)
    /\ Len(out) = Len(idx)
    /\ \A k \in 1..Len(idx) : out[k] = line[idx[k] + 1]

BasisComputed == proc = "running" /\ pc = "map1"

\* v is the normalisation of a non-zero vector: a vector of length 1
UnitLength(v) == ~v.nan /\ v.d # Zero3

AfterBasis == { "map1" } \cup AfterMapLine1

\* the 2D cloud is the 3D cloud of the line expressed with the basis that the
\* object holds now
MappedWithBasis(cloud2D, line) ==
    /\ Len(cloud2D) = Len(line)
    /\ \A i \in 1..Len(line) :
          cloud2D[i] = Point2D(ProjectPoint(line[i], plane), refPoint, vector1, vector2)

\* the basis in every state of the first invocation: not computed before
\* any 2D mapping has been made, the basis of the projected line 1 from then
\* on, and the basis with which both 2D clouds were made
BasisOfLine1 ==
    /\ (calls = 1 /\ pc \in { "project1", "basis" }) =>
          /\ line1InPlane2D.pts = <<>> /\ line2InPlane2D.pts = <<>>
          /\ <<refPoint, vector1, vector2>> = <<Zero3, Vec(<<1, 0, 0>>), Vec(<<0, 1, 0>>)>>
    /\ (calls = 1 /\ (pc \in AfterBasis \/ pc = "idle") /\ line1 # <<>>) =>
          LET bs == computeTwoVectorsAndRefPoint(
                        createCloudFromProjectionInPlane(line1, plane), plane)
          IN  <<refPoint, vector1, vector2>> = <<bs.refPoint, bs.vector1, bs.vector2>>
    /\ (calls = 1 /\ (pc \in AfterMapLine1 \/ pc = "idle") /\ ~line1InPlane2D.null) =>
          MappedWithBasis(line1InPlane2D.pts, line1)
    /\ (calls = 1 /\ pc \in { "hulls", "classify1", "classify2", "idle" }
            /\ ~line2InPlane2D.null) =>
          MappedWithBasis(line2InPlane2D.pts, line2)

\* a step of any stage but computeTwoVectorsAndRefPoint leaves the basis as
\* it is
BasisKept == pc # "basis" => UNCHANGED <<refPoint, vector1, vector2>>

\* C18: within an invocation refPoint, vector1 and vector2 are computed once,
\* from the projected line 1 only and before any 2D mapping, no later stage
\* changes them, and both lines are mapped to 2D with that one basis.
C18_SharedBasis == [](BasisOfLine1) /\ [][BasisKept]_vars

\* C18 witness: an invocation has returned with both 2D clouds held, line 2
\* mapped with the basis of line 1, whose reference point is not the first
\* point of line 2.
C18_Witness ==
    /\ Returned
    /\ ~line1InPlane2D.null /\ ~line2InPlane2D.null
    /\ Len(line2) >= 2
    /\ ~DegenerateBasis
    /\ refPoint = ProjectPoint(line1[1], plane)
    /\ refPoint # ProjectPoint(line2[1], plane)
    /\ MappedWithBasis(line2InPlane2D.pts, line2)
    /\ line2InPlane2D.pts[1] # Point2D(refPoint, refPoint, vector1, vector2)

\* C19: for every input of more than 3 points the returned list is open (its
\* last vertex differs from its first), holds no point twice, starts at the
\* lexicographically smallest input point and turns counter-clockwise.
C19_OpenHull ==
    (hpc = "done" /\ Len(points0) > 3) =>
        /\ Len(hull) >= 1
        /\ Len(hull) > 1 => ~SameXY(hull[Len(hull)], hull[1])
        /\ \A i, j \in 1..Len(hull) : i # j => ~SameXY(hull[i], hull[j])
        /\ \A i \in 1..Len(points0) : ~LessAndrews(points0[i], hull[1])
        /\ Len(hull) >= 3 =>
              \A i \in 1..Len(hull) :
                  cross(hull[i], hull[CycNext(i, Len(hull))],
                        hull[CycNext(CycNext(i, Len(hull)), Len(hull))]) > 0

\* what computeVerticesOfHullAndrews leaves when each of its three loops
\* starts at position 0: all points of the cloud passed with their positions,
\* every hull vertex copied in order, one index per vertex
CompleteHull(cloud, vertices, indices, keepInformation) ==
    \E sorted \in SortedVectors(AndrewsInput(cloud, 0)) :
        LET h == AndrewsConvex_hull(AndrewsInput(cloud, 0), sorted).hull
        IN  /\ Len(AndrewsInput(cloud, 0)) = Len(cloud)
            /\ vertices = VerticesFrom(h, 0)
            /\ Len(vertices) = Len(h)
            /\ keepInformation =>
                  /\ Len(indices) = Len(h)
                  /\ \A j \in 1..Len(h) : indices[j] = h[j].index

\* C20: after the hulls of an invocation with Andrew's method are built, each
\* hull is the one computeVerticesOfHullAndrews makes from all N points of the
\* 2D cloud, point i carrying index i, with every hull vertex copied in order
\* and, when indices are kept, one index per vertex in the same order.
C20_WrapperComplete ==
    (HullsBuilt /\ hullMethod = "Andrew's" /\ ~oob
            /\ ~line1InPlane2D.null /\ ~line2InPlane2D.null) =>
        /\ CompleteHull(line1InPlane2D.pts, hull1Vertices.pts, hull1PointIndices,
                        ~args.minimalMemory)
        /\ CompleteHull(line2InPlane2D.pts, hull2Vertices.pts, hull2PointIndices,
                        ~args.minimalMemory)

\* -------------------------------------- properties of sequences of calls

\* C21: no invocation dereferences a projected 3D cloud, a 2D cloud or a hull
\* that a minimal-memory invocation has released, and whenever a call can be
\* made neither bounding-box function does.
C21_NoUseAfterRelease ==
    /\ fault # "null dereference"
    /\ Callable =>
          \A minPt \in CallerPoints, maxPt \in CallerPoints :
              /\ getMinMaxPointsInOverlapPlane2D(minPt, maxPt).fault # "null dereference"
              /\ getMinMaxPointsInOverlapPlane3D(minPt, maxPt).fault # "null dereference"

\* C22: after every completed invocation getNbPointsInOverlap( 0 ) and
\* getNbPointsInOverlap( 1 ) are the first and the second count of the pair
\* that the invocation returned.
C22_CountAccessor ==
    Returned =>
        /\ getNbPointsInOverlap(0) = ret[1]
        /\ getNbPointsInOverlap(1) = ret[2]

\* C23: when an invocation returns, each output cloud that the caller passed
\* holds as many points as the count returned for its line.
C23_OutputCloudSize ==
    Returned =>
        /\ args.has1 => Len(line1InBothHull) = ret[1]
        /\ args.has2 => Len(line2InBothHull) = ret[2]

====
